---- MODULE Spec2Model ----
(***************************************************************************)
(* SimpleFS (src/library/fs.c over src/library/disk.c) as a state machine. *)
(*                                                                         *)
(* A disk block is an array of BLOCK_SIZE cells.  The C union Block gives  *)
(* four views of the same cells: raw data, SuperBlock, Inode[] and         *)
(* pointers[]; the model keeps the cells and decodes them on use, so a     *)
(* data write that lands on block 0 or on an inode block is seen by every  *)
(* later reader of that block.  One cell stands for one addressable unit   *)
(* (a byte of file data, a 32-bit field of a structure); the geometry is   *)
(* scaled down, with the header's relations between the constants kept.    *)
(***************************************************************************)
EXTENDS Integers, Sequences, FiniteSets, TLC

(* ---------------- geometry (sfs/fs.h, sfs/disk.h; scaled) -------------- *)

BLOCK_SIZE == 10
POINTERS_PER_INODE == 2
MAGIC_NUMBER == 61680

\* cells of one Inode: valid, size, direct[POINTERS_PER_INODE], indirect
INODE_SIZE == 3 + POINTERS_PER_INODE
INODES_PER_BLOCK == BLOCK_SIZE \div INODE_SIZE
POINTERS_PER_BLOCK == BLOCK_SIZE

\* fs_write's hard-coded limit, BLOCK_SIZE * 5 + BLOCK_SIZE * 128: the 5 is
\* POINTERS_PER_INODE and the 128 is INODES_PER_BLOCK (not POINTERS_PER_BLOCK)
WriteLimit == BLOCK_SIZE * POINTERS_PER_INODE + BLOCK_SIZE * INODES_PER_BLOCK

\* width of size_t, scaled: arithmetic on size_t is modulo SIZE_MOD
SIZE_MOD == 1048576

(* ---------------- bounds of the model ---------------------------------- *)

\* blocks of the device handed to disk_open
DiskBlocks == 11
\* calls made on the handle in one behaviour; fs_stat and fs_read change
\* neither the device nor the handle, so they are explored as the last call
\* of a behaviour: the calls that could follow them start from a state that
\* is explored without them
MaxOps == 4
\* calls of fs_write among them
MaxWrites == 1

\* what an uninitialised automatic Block can hold (every cell the same value);
\* the stack of one run of the program holds one of them throughout
Garbage == {0, 1}
\* where the free-block scan stops when it runs past the end of the bitmap
OobIndex == {DiskBlocks, DiskBlocks + 1}
\* inode numbers passed by the caller (the last one is past the inode table)
Inums == 0 .. 4
\* <<offset, length>> passed to read and write: inside the first direct block
\* (aligned, not aligned), inside the indirect range, and from offset 0 across
\* the direct blocks into the indirect range
IoArgs == {<<0, 2>>, <<3, 2>>,
           <<POINTERS_PER_INODE * BLOCK_SIZE, 2>>,
           <<0, POINTERS_PER_INODE * BLOCK_SIZE + 5>>}
\* <<offset, length>> passed to write: those, and a write from offset 0 that
\* ends past fs_write's limit and inside the largest file
WriteArgs == IoArgs \cup {<<0, WriteLimit + 5>>}
\* byte i of the buffer the caller passes to its p-th write: no two writes of
\* a behaviour carry the same bytes, no two neighbouring bytes are equal
Buf(p, i) == 100 + 10 * p + (i % 7)

Cells == 0 .. (BLOCK_SIZE - 1)
BlockIds == 0 .. (DiskBlocks - 1)

Fill(v) == [c \in Cells |-> v]
ZeroBlock == Fill(0)

(* ---------------- disk.c ------------------------------------------------ *)

\* disk_sanity_check: a device and a block inside it (the buffer is never NULL
\* in fs.c)
disk_sanity_check(d, block) == d = 1 /\ block >= 0 /\ block < DiskBlocks

(* ---------------- the views of a Block ---------------------------------- *)

Super(blk) ==
    [magic_number |-> blk[0], blocks |-> blk[1],
     inode_blocks |-> blk[2], inodes |-> blk[3]]

InodeAt(blk, i) ==
    [valid    |-> blk[i * INODE_SIZE],
     size     |-> blk[i * INODE_SIZE + 1],
     direct   |-> [k \in 0 .. (POINTERS_PER_INODE - 1) |-> blk[i * INODE_SIZE + 2 + k]],
     indirect |-> blk[i * INODE_SIZE + 2 + POINTERS_PER_INODE]]

SetInode(blk, i, ino) ==
    [c \in Cells |->
        IF c = i * INODE_SIZE THEN ino.valid
        ELSE IF c = i * INODE_SIZE + 1 THEN ino.size
        ELSE IF c >= i * INODE_SIZE + 2 /\ c < i * INODE_SIZE + 2 + POINTERS_PER_INODE
             THEN ino.direct[c - (i * INODE_SIZE + 2)]
        ELSE IF c = i * INODE_SIZE + 2 + POINTERS_PER_INODE THEN ino.indirect
        ELSE blk[c]]

Slots == 0 .. (INODES_PER_BLOCK - 1)
DirectIdx == 0 .. (POINTERS_PER_INODE - 1)
PtrIdx == 0 .. (POINTERS_PER_BLOCK - 1)

\* the block and the slot fs.c computes for an inode number
InodeBlock(n) == n \div INODES_PER_BLOCK + 1
InodeSlot(n) == n % INODES_PER_BLOCK

NoBitmap == [b \in BlockIds |-> 0]

VARIABLES disk, fs, last, halted, ops, writes, junk

vars == <<disk, fs, last, halted, ops, writes, junk>>

\* the record of the last call: its name, arguments and return value (a bool
\* return as 1 / 0), the bytes a read delivered, and in aux what the call
\* found: for create the number of the lowest inode that was not valid, for
\* remove the blocks that were reachable from the inode, for write the blocks
\* that were free
Call(op, n, len, off, pat, ret, out, aux) ==
    [op |-> op, n |-> n, len |-> len, off |-> off, pat |-> pat,
     ret |-> ret, out |-> out, aux |-> aux]

Mounted == fs.disk = 1 /\ fs.has_bitmap

(* ---------------- fs_format --------------------------------------------- *)

\* Block s with the four fields set, Block ib never written: g is what the
\* stack held
fs_format(g) ==
    [b \in BlockIds |->
        IF b = 0
        THEN [c \in Cells |->
                IF c = 0 THEN MAGIC_NUMBER
                ELSE IF c = 1 THEN DiskBlocks
                ELSE IF c = 2 THEN (IF DiskBlocks % 10 = 0
                                    THEN DiskBlocks \div 10
                                    ELSE DiskBlocks \div 10 + 1)
                ELSE IF c = 3 THEN (IF DiskBlocks % 10 = 0
                                    THEN DiskBlocks \div 10
                                    ELSE DiskBlocks \div 10 + 1) * INODES_PER_BLOCK
                ELSE g]
        ELSE Fill(g)]

Format ==
    /\ halted = "run" /\ ops < MaxOps
    /\ IF fs.disk # 0
       THEN /\ UNCHANGED <<disk, fs>>
            /\ last' = Call("format", 0, 0, 0, 0, 0, <<>>, {})
       ELSE /\ disk' = fs_format(junk)
            /\ UNCHANGED fs
            /\ last' = Call("format", 0, 0, 0, 0, 1, <<>>, {})
    /\ ops' = ops + 1
    /\ UNCHANGED <<halted, writes, junk>>

(* ---------------- fs_mount ---------------------------------------------- *)

\* a mount without the test for a handle that is already bound
MountAcceptsAnyHandle(s, f) ==
    /\ s.magic_number = MAGIC_NUMBER
    /\ s.blocks = DiskBlocks
    /\ ~ (s.inode_blocks # DiskBlocks \div 10 /\ s.inode_blocks # DiskBlocks \div 10 + 1)

\* the checks of fs_mount before it binds the device, in the order of the code
MountAccepts(s, f) ==
    /\ s.magic_number = MAGIC_NUMBER
    /\ s.blocks = DiskBlocks
    /\ ~ (s.inode_blocks # DiskBlocks \div 10 /\ s.inode_blocks # DiskBlocks \div 10 + 1)
    /\ f.disk = 0

\* the inodes the scan visits: (table block, slot) with valid == 1
ScanInodes(dk, s) ==
    {q \in (1 .. s.inode_blocks) \X Slots : InodeAt(dk[q[1]], q[2]).valid = 1}

\* the scan returns false when an indirect block cannot be read
ScanFails(dk, s) ==
    \E q \in ScanInodes(dk, s) :
        /\ InodeAt(dk[q[1]], q[2]).indirect # 0
        /\ ~ disk_sanity_check(1, InodeAt(dk[q[1]], q[2]).indirect)

\* a scan that leaves out the entries of the indirect block
ScanMarksNoEntries(dk, s) ==
    UNION {
        {InodeAt(dk[q[1]], q[2]).direct[k] : k \in DirectIdx}
        \cup (IF InodeAt(dk[q[1]], q[2]).indirect # 0
              THEN {InodeAt(dk[q[1]], q[2]).indirect}
              ELSE {})
        : q \in ScanInodes(dk, s)}

\* every index the scan clears in the bitmap: all direct[] entries (zero or
\* not), the indirect pointer and all entries of the indirect block
ScanMarks(dk, s) ==
    UNION {
        {InodeAt(dk[q[1]], q[2]).direct[k] : k \in DirectIdx}
        \cup (IF InodeAt(dk[q[1]], q[2]).indirect # 0
              THEN {InodeAt(dk[q[1]], q[2]).indirect}
                   \cup {dk[InodeAt(dk[q[1]], q[2]).indirect][p] : p \in PtrIdx}
              ELSE {})
        : q \in ScanInodes(dk, s)}

\* the bitmap fs_mount builds: 1 = free, 0 = used; a store past the end of the
\* allocation does not land in the bitmap
MountBitmap(dk, s) ==
    [b \in BlockIds |->
        IF b < s.inode_blocks + 1 \/ b \in ScanMarks(dk, s) THEN 0 ELSE 1]

\* [ret, fs]: refused before anything is bound; or the device and the
\* superblock copy are bound and the scan fails, the bitmap built so far
\* dropped; or the bitmap is stored in the handle
fs_mount(dk, f) ==
    LET s == Super(dk[0]) IN
    IF ~ MountAccepts(s, f)
    THEN [ret |-> FALSE, fs |-> f]
    ELSE IF ScanFails(dk, s)
    THEN [ret |-> FALSE, fs |-> [f EXCEPT !.disk = 1, !.meta_data = s]]
    ELSE [ret |-> TRUE,
          fs  |-> [disk |-> 1, meta_data |-> s, has_bitmap |-> TRUE,
                   free_blocks |-> MountBitmap(dk, s)]]

Mount ==
    /\ halted = "run" /\ ops < MaxOps
    /\ \E r \in {fs_mount(disk, fs)} :
         /\ fs' = r.fs
         /\ last' = Call("mount", 0, 0, 0, 0, IF r.ret THEN 1 ELSE 0, <<>>, {})
    /\ ops' = ops + 1
    /\ UNCHANGED <<disk, halted, writes, junk>>

(* ---------------- fs_unmount -------------------------------------------- *)

fs_unmount(f) ==
    [f EXCEPT !.disk = 0, !.has_bitmap = FALSE, !.free_blocks = NoBitmap]

Unmount ==
    /\ halted = "run" /\ ops < MaxOps
    /\ fs' = fs_unmount(fs)
    /\ last' = Call("unmount", 0, 0, 0, 0, 0, <<>>, {})
    /\ ops' = ops + 1
    /\ UNCHANGED <<disk, halted, writes, junk>>

(* ---------------- fs_create -------------------------------------------- *)

\* the first (table block, slot) with valid == 0, blocks in order, slots in order
FreeSlots(dk, meta) ==
    {q \in (1 .. meta.inode_blocks) \X Slots : InodeAt(dk[q[1]], q[2]).valid = 0}

FirstFreeSlot(dk, meta) ==
    CHOOSE q \in FreeSlots(dk, meta) :
        \A r \in FreeSlots(dk, meta) :
            q[1] < r[1] \/ (q[1] = r[1] /\ q[2] <= r[2])

\* the number of the lowest inode of the table that is not valid
LowestInvalid(dk, meta) ==
    CHOOSE n \in 0 .. (meta.inode_blocks * INODES_PER_BLOCK - 1) :
        /\ InodeAt(dk[InodeBlock(n)], InodeSlot(n)).valid = 0
        /\ \A m \in 0 .. (n - 1) : InodeAt(dk[InodeBlock(m)], InodeSlot(m)).valid # 0

ClearedInode(v) ==
    [valid |-> v, size |-> 0, direct |-> [k \in DirectIdx |-> 0], indirect |-> 0]

\* what fs_create returns for the slot it reserved: inum = i, the slot inside
\* the table block
CreateReturn(q) == q[2]

\* [ret, disk]
fs_create(dk, f) ==
    IF f.meta_data.inode_blocks >= 1 /\ ~ disk_sanity_check(f.disk, 1)
    THEN [ret |-> -1, disk |-> dk]
    ELSE IF f.meta_data.inode_blocks < 1 \/ FreeSlots(dk, f.meta_data) = {}
    THEN [ret |-> -1, disk |-> dk]
    ELSE LET q == FirstFreeSlot(dk, f.meta_data) IN
         [ret  |-> CreateReturn(q),
          disk |-> [dk EXCEPT ![q[1]] = SetInode(dk[q[1]], q[2], ClearedInode(1))]]

Create ==
    /\ halted = "run" /\ ops < MaxOps
    /\ \E r \in {fs_create(disk, fs)} :
         /\ disk' = r.disk
         /\ last' = Call("create", 0, 0, 0, 0, r.ret, <<>>,
                         IF r.ret >= 0 THEN {LowestInvalid(disk, fs.meta_data)} ELSE {})
    /\ ops' = ops + 1
    /\ UNCHANGED <<fs, halted, writes, junk>>

(* ---------------- fs_stat ----------------------------------------------- *)

fs_stat(dk, f, n) ==
    IF ~ disk_sanity_check(f.disk, InodeBlock(n)) THEN -1
    ELSE IF InodeAt(dk[InodeBlock(n)], InodeSlot(n)).valid # 0
         THEN InodeAt(dk[InodeBlock(n)], InodeSlot(n)).size
         ELSE -1

Stat ==
    /\ halted = "run" /\ ops < MaxOps
    /\ \E n \in Inums :
         last' = Call("stat", n, 0, 0, 0, fs_stat(disk, fs, n), <<>>, {})
    /\ ops' = MaxOps
    /\ UNCHANGED <<disk, fs, halted, writes, junk>>

(* ---------------- fs_remove --------------------------------------------- *)

\* free_blocks[idx] = v for every idx of a set; a store past the end of the
\* allocation does not land in the bitmap
StoreAll(free, idxs, v) ==
    [b \in BlockIds |-> IF b \in idxs THEN v ELSE free[b]]

\* a release loop that stops after direct[0]
RemoveDirectFirst(ino) == {ino.direct[0]}

\* the indices fs_remove releases for the direct pointers: every direct[q]
RemoveDirect(ino) == {ino.direct[k] : k \in DirectIdx}

\* [ret, disk, free, crash]
fs_remove(dk, f, n) ==
    IF ~ disk_sanity_check(f.disk, InodeBlock(n))
    THEN [ret |-> FALSE, disk |-> dk, free |-> f.free_blocks, crash |-> FALSE]
    ELSE LET nb  == InodeBlock(n)
             ino == InodeAt(dk[nb], InodeSlot(n))
         IN
         IF ino.valid # 1
         THEN [ret |-> FALSE, disk |-> dk, free |-> f.free_blocks, crash |-> FALSE]
         ELSE IF ~ f.has_bitmap
         THEN [ret |-> FALSE, disk |-> dk, free |-> f.free_blocks, crash |-> TRUE]
         ELSE LET f1 == StoreAll(f.free_blocks, RemoveDirect(ino), 1) IN
              IF ino.indirect # 0 /\ ~ disk_sanity_check(f.disk, ino.indirect)
              THEN [ret |-> FALSE, disk |-> dk, crash |-> FALSE,
                    free |-> StoreAll(f1, {ino.indirect}, 1)]
              ELSE [ret   |-> TRUE,
                    disk  |-> [dk EXCEPT ![nb] = SetInode(dk[nb], InodeSlot(n), ClearedInode(0))],
                    crash |-> FALSE,
                    free  |-> IF ino.indirect # 0
                              THEN StoreAll(f1, {ino.indirect}
                                       \cup {dk[ino.indirect][p] : p \in PtrIdx}, 1)
                              ELSE f1]

\* the blocks reachable from inode n: nonzero direct pointers, the nonzero
\* indirect pointer and the nonzero entries of the indirect block
Reachable(dk, n) ==
    LET ino == InodeAt(dk[InodeBlock(n)], InodeSlot(n)) IN
    ({ino.direct[k] : k \in DirectIdx}
     \cup {ino.indirect}
     \cup (IF ino.indirect \in BlockIds /\ ino.indirect # 0
           THEN {dk[ino.indirect][p] : p \in PtrIdx} ELSE {}))
    \ {0}

Remove ==
    /\ halted = "run" /\ ops < MaxOps
    /\ \E n \in Inums :
         \E r \in {fs_remove(disk, fs, n)} :
         /\ disk' = r.disk
         /\ fs' = [fs EXCEPT !.free_blocks = r.free]
         /\ halted' = IF r.crash THEN "crash" ELSE "run"
         /\ last' = Call("remove", n, 0, 0, 0, IF r.ret THEN 1 ELSE 0, <<>>,
                         IF r.ret THEN Reachable(disk, n) \cap BlockIds ELSE {})
    /\ ops' = ops + 1
    /\ UNCHANGED <<writes, junk>>

(* ---------------- fs_read ----------------------------------------------- *)

\* the bytes of the caller's buffer after memcpy(data + b_read, &blk[from], cnt)
Copied(out, blk, from, cnt) ==
    out \o [k \in 1 .. cnt |-> blk[from + k - 1]]

\* disk_read(fs->disk, block, d.data + offset): the block lands offset cells
\* into d; what falls past the end of d is written over the stack behind it
ReadInto(d, blk, offset) ==
    [c \in Cells |-> IF c >= offset THEN blk[c - offset] ELSE d[c]]

\* the test that resets length: length + offset > size, all size_t
ReadClamps(length, offset, size) == (length + offset) % SIZE_MOD > size

\* the loop of fs_read; st = [d_num, ind_num, b_read, out, d, smash]
\* returns [ret, out, hang, smash]
RECURSIVE ReadLoop(_, _, _, _, _, _)
ReadLoop(dk, f, ino, length, offset, st) ==
    IF ~ (st.b_read < length)
    THEN [ret |-> st.b_read, out |-> st.out, hang |-> FALSE, smash |-> st.smash]
    ELSE LET byte_start == offset % BLOCK_SIZE
             read_size  == BLOCK_SIZE - byte_start
             cnt        == IF st.b_read + read_size > length
                           THEN length - st.b_read ELSE read_size
         IN
         IF st.d_num < POINTERS_PER_INODE
         THEN IF ~ disk_sanity_check(f.disk, ino.direct[st.d_num])
              THEN [ret |-> -1, out |-> <<>>, hang |-> FALSE, smash |-> st.smash]
              ELSE LET d == ReadInto(st.d, dk[ino.direct[st.d_num]], offset) IN
                   ReadLoop(dk, f, ino, length, offset,
                       [st EXCEPT !.d = d,
                                  !.smash = st.smash \/ offset > 0,
                                  !.out = Copied(st.out, d, byte_start, cnt),
                                  !.b_read = st.b_read + cnt,
                                  !.d_num = st.d_num + 1])
         ELSE IF ino.indirect # 0 /\ st.ind_num < POINTERS_PER_BLOCK
         THEN IF ~ disk_sanity_check(f.disk, ino.indirect)
              THEN [ret |-> -1, out |-> <<>>, hang |-> FALSE, smash |-> st.smash]
              ELSE IF ~ disk_sanity_check(f.disk, dk[ino.indirect][st.ind_num])
              THEN [ret |-> -1, out |-> <<>>, hang |-> FALSE, smash |-> st.smash]
              ELSE ReadLoop(dk, f, ino, length, offset,
                       [st EXCEPT !.out = Copied(st.out,
                                                 dk[dk[ino.indirect][st.ind_num]],
                                                 byte_start, cnt),
                                  !.b_read = st.b_read + cnt,
                                  !.ind_num = st.ind_num + 1])
         \* neither branch advances b_read: the loop never ends
         ELSE [ret |-> 0, out |-> <<>>, hang |-> TRUE, smash |-> st.smash]

\* [ret, out, hang, smash]; g is what the stack held where Block d lies
fs_read(dk, f, n, length, offset, g) ==
    IF length = 0
    THEN [ret |-> 0, out |-> <<>>, hang |-> FALSE, smash |-> FALSE]
    ELSE IF ~ disk_sanity_check(f.disk, InodeBlock(n))
    THEN [ret |-> -1, out |-> <<>>, hang |-> FALSE, smash |-> FALSE]
    ELSE LET ino   == InodeAt(dk[InodeBlock(n)], InodeSlot(n))
             d_num == offset \div BLOCK_SIZE
         IN
         IF ino.valid = 0
         THEN [ret |-> -1, out |-> <<>>, hang |-> FALSE, smash |-> FALSE]
         ELSE ReadLoop(dk, f, ino,
                  IF ReadClamps(length, offset, ino.size)
                  THEN (ino.size - offset) % SIZE_MOD ELSE length,
                  offset,
                  [d_num   |-> d_num,
                   ind_num |-> IF d_num > POINTERS_PER_INODE
                               THEN offset \div BLOCK_SIZE - POINTERS_PER_INODE ELSE 0,
                   b_read  |-> 0, out |-> <<>>, d |-> Fill(g), smash |-> FALSE])

Read ==
    /\ halted = "run" /\ ops < MaxOps
    /\ \E n \in Inums, io \in IoArgs :
         \E r \in {fs_read(disk, fs, n, io[2], io[1], junk)} :
         /\ last' = Call("read", n, io[2], io[1], 0, r.ret, r.out, {})
         /\ \E h \in (IF r.hang THEN {"hang"}
                      ELSE IF r.smash THEN {"run", "crash"} ELSE {"run"}) :
                halted' = h
    /\ ops' = MaxOps
    /\ UNCHANGED <<disk, fs, writes, junk>>

(* ---------------- fs_write ---------------------------------------------- *)

\* int index = 0; while (fs->free_blocks[index] == 0) index++;
\* with no free entry the scan leaves the bitmap and stops at oob
FirstFree(free, oob) ==
    IF \E b \in BlockIds : free[b] # 0
    THEN CHOOSE b \in BlockIds : free[b] # 0 /\ \A c \in BlockIds : free[c] # 0 => b <= c
    ELSE oob

\* memcpy(&blk[byte_start], data + b_write, cnt), data being pattern p
Splice(blk, byte_start, p, b_write, cnt) ==
    [c \in Cells |->
        IF c >= byte_start /\ c < byte_start + cnt
        THEN Buf(p, b_write + (c - byte_start)) ELSE blk[c]]

\* disk_write on a block inside the device
PutBlock(dk, block, blk) == [dk EXCEPT ![block] = blk]

\* the size fs_write stores after a direct block: b.inodes[i_num].size = b_write
WrittenSize(offset, b_write) == b_write

\* the length fs_write continues with when length + offset exceeds the limit
ClampedLength(length, offset) ==
    IF length + offset > WriteLimit THEN WriteLimit ELSE length

\* the slot fs_write assigns for a direct block: direct[d_num] = index, whatever
\* the slot held
DirectTarget(ino, d_num, index) == index

\* the loop of fs_write
\* env = [n, pat, length, offset, oob, dev, b]: b is the inode block as
\* fs_write read it on entry; the copy it writes back is b with the inode
\* fields it has set since
\* st  = [disk, free, ino, d_num, ind_num, b_write, d, ind, i_data]
\* returns [ret, disk, free, hang]
RECURSIVE WriteLoop(_, _)
WriteLoop(env, st) ==
    IF ~ (st.b_write < env.length)
    THEN [ret |-> st.b_write, disk |-> st.disk, free |-> st.free, hang |-> FALSE]
    ELSE LET nb         == InodeBlock(env.n)
             slot       == InodeSlot(env.n)
             byte_start == env.offset % BLOCK_SIZE
             write_size == BLOCK_SIZE - byte_start
             cnt        == IF st.b_write + write_size > env.length
                           THEN env.length - st.b_write ELSE write_size
             b_write    == st.b_write + cnt
         IN
         IF st.d_num < POINTERS_PER_INODE
         THEN LET d     == Splice(st.d, byte_start, env.pat, st.b_write, cnt)
                  index == FirstFree(st.free, env.oob)
              IN
              IF ~ disk_sanity_check(env.dev, index)
              THEN [ret |-> -1, disk |-> st.disk, free |-> st.free, hang |-> FALSE]
              ELSE LET ino == [st.ino EXCEPT
                                  !.size = WrittenSize(env.offset, b_write),
                                  !.direct[st.d_num] = DirectTarget(st.ino, st.d_num, index)]
                       dk1 == PutBlock(st.disk, index, d)
                   IN
                   WriteLoop(env,
                       [st EXCEPT !.d = d,
                                  !.b_write = b_write,
                                  !.ino = ino,
                                  !.free = StoreAll(st.free, {ino.direct[st.d_num]}, 0),
                                  !.disk = PutBlock(dk1, nb, SetInode(env.b, slot, ino)),
                                  !.d_num = st.d_num + 1])
         ELSE LET \* create the indirect block if there is none
                  needs == st.ino.indirect = 0
                  index == FirstFree(st.free, env.oob)
                  ino   == IF needs THEN [st.ino EXCEPT !.indirect = index] ELSE st.ino
                  free1 == IF needs THEN StoreAll(st.free, {index}, 0) ELSE st.free
                  dk1   == IF needs
                           THEN PutBlock(st.disk, nb, SetInode(env.b, slot, ino))
                           ELSE st.disk
              IN
              IF st.ind_num < POINTERS_PER_BLOCK
              THEN LET i_data == Splice(st.i_data, byte_start, env.pat, st.b_write, cnt)
                       index2 == FirstFree(free1, env.oob)
                       ind    == [st.ind EXCEPT ![st.ind_num] = index2]
                   IN
                   IF ~ disk_sanity_check(env.dev, index2)
                   THEN [ret |-> -1, disk |-> dk1, free |-> free1, hang |-> FALSE]
                   ELSE IF ~ disk_sanity_check(env.dev, ino.indirect)
                   THEN [ret |-> -1, disk |-> PutBlock(dk1, index2, i_data),
                         free |-> free1, hang |-> FALSE]
                   ELSE LET dk2 == PutBlock(PutBlock(dk1, index2, i_data), ino.indirect, ind)
                        IN
                        WriteLoop(env,
                            [st EXCEPT !.i_data = i_data,
                                       !.ind = ind,
                                       !.b_write = b_write,
                                       !.ino = ino,
                                       !.free = StoreAll(free1, {index2}, 0),
                                       !.disk = PutBlock(dk2, nb, SetInode(env.b, slot, ino)),
                                       !.ind_num = st.ind_num + 1])
              \* nothing advances b_write: the loop never ends
              ELSE [ret |-> 0, disk |-> dk1, free |-> free1, hang |-> TRUE]

\* the first pass of the loop reads free_blocks unless it is the pass that
\* never ends on an inode that has an indirect block
TouchesBitmap(ino, offset) ==
    LET d_num == offset \div BLOCK_SIZE IN
    \/ d_num < POINTERS_PER_INODE
    \/ ino.indirect = 0
    \/ (IF d_num > POINTERS_PER_INODE THEN d_num - POINTERS_PER_INODE ELSE 0)
           < POINTERS_PER_BLOCK

\* [ret, disk, free, hang, crash]; g is what the stack held where the Blocks
\* d, ind and i_data lie, oob where a scan past the bitmap stops
fs_write(dk, f, n, pat, length, offset, g, oob) ==
    IF length = 0
    THEN [ret |-> 0, disk |-> dk, free |-> f.free_blocks, hang |-> FALSE, crash |-> FALSE]
    ELSE IF ~ disk_sanity_check(f.disk, InodeBlock(n))
    THEN [ret |-> -1, disk |-> dk, free |-> f.free_blocks, hang |-> FALSE, crash |-> FALSE]
    ELSE LET ino   == InodeAt(dk[InodeBlock(n)], InodeSlot(n))
             d_num == offset \div BLOCK_SIZE
         IN
         IF ~ f.has_bitmap /\ TouchesBitmap(ino, offset)
         THEN [ret |-> -1, disk |-> dk, free |-> f.free_blocks,
               hang |-> FALSE, crash |-> TRUE]
         ELSE LET r == WriteLoop(
                        [n |-> n, pat |-> pat, length |-> ClampedLength(length, offset),
                         offset |-> offset, oob |-> oob, dev |-> f.disk,
                         b |-> dk[InodeBlock(n)]],
                        [disk |-> dk, free |-> f.free_blocks, ino |-> ino,
                         d_num   |-> d_num,
                         ind_num |-> IF d_num > POINTERS_PER_INODE
                                     THEN offset \div BLOCK_SIZE - POINTERS_PER_INODE
                                     ELSE 0,
                         b_write |-> 0,
                         d |-> Fill(g), ind |-> Fill(g), i_data |-> Fill(g)])
              IN [ret |-> r.ret, disk |-> r.disk, free |-> r.free,
                  hang |-> r.hang, crash |-> FALSE]

\* one call of fs_write takes at most a block per pass of its loop and one
\* indirect block: where the scan stops past the bitmap matters only to a call
\* that can run out of free blocks
OobChoices(free) ==
    IF Cardinality({b \in BlockIds : free[b] # 0}) > WriteLimit \div BLOCK_SIZE + 1
    THEN {DiskBlocks}
    ELSE OobIndex

Write ==
    /\ halted = "run" /\ ops < MaxOps /\ writes < MaxWrites
    /\ \E n \in Inums, pat \in {writes + 1}, io \in WriteArgs, oob \in OobChoices(fs.free_blocks) :
         \E r \in {fs_write(disk, fs, n, pat, io[2], io[1], junk, oob)} :
         /\ disk' = r.disk
         /\ fs' = [fs EXCEPT !.free_blocks = r.free]
         /\ halted' = IF r.hang THEN "hang" ELSE IF r.crash THEN "crash" ELSE "run"
         /\ last' = Call("write", n, io[2], io[1], pat, r.ret, <<>>,
                         {b \in BlockIds : fs.free_blocks[b] # 0})
    /\ ops' = ops + 1
    /\ writes' = writes + 1
    /\ UNCHANGED junk

(* ---------------- the handle and the device ----------------------------- *)

\* a device image written by an earlier fs_format whose stack held zeros
FormattedDisk == fs_format(0)

\* the same image after an earlier run mounted it and called fs_create once
ClearedFs ==
    [disk |-> 0, meta_data |-> Super(ZeroBlock), has_bitmap |-> FALSE,
     free_blocks |-> NoBitmap]

UsedDisk == fs_create(FormattedDisk, fs_mount(FormattedDisk, ClearedFs).fs).disk

\* the image an earlier run left after it mounted the formatted device, called
\* fs_create three times and wrote three files: inode 0 up to the write limit
\* (direct blocks, indirect block, two blocks named in it), inode 1 over its
\* direct blocks, inode 2 over one block; its stack held zeros
ThreeInodes ==
    fs_create(fs_create(UsedDisk, fs_mount(UsedDisk, ClearedFs).fs).disk,
              fs_mount(UsedDisk, ClearedFs).fs).disk

FirstFile ==
    fs_write(ThreeInodes, fs_mount(ThreeInodes, ClearedFs).fs,
             0, 0, WriteLimit, 0, 0, DiskBlocks)

SecondFile ==
    fs_write(FirstFile.disk,
             [fs_mount(ThreeInodes, ClearedFs).fs EXCEPT !.free_blocks = FirstFile.free],
             1, 0, POINTERS_PER_INODE * BLOCK_SIZE, 0, 0, DiskBlocks)

ThirdFile ==
    fs_write(SecondFile.disk,
             [fs_mount(ThreeInodes, ClearedFs).fs EXCEPT !.free_blocks = SecondFile.free],
             2, 0, BLOCK_SIZE, 0, 0, DiskBlocks)

FilledDisk == ThirdFile.disk

\* disk_open keeps what the file held: a new file reads as zeros, an older
\* image keeps its blocks; the FileSystem structure starts cleared
Init ==
    /\ disk \in {[b \in BlockIds |-> ZeroBlock], FormattedDisk, UsedDisk, FilledDisk}
    /\ fs = ClearedFs
    /\ last = Call("open", 0, 0, 0, 0, 0, <<>>, {})
    /\ halted = "run"
    /\ ops = 0
    /\ writes = 0
    /\ junk \in Garbage

Next ==
    \/ Format
    \/ Mount
    \/ Unmount
    \/ Create
    \/ Stat
    \/ Remove
    \/ Read
    \/ Write

Spec == Init /\ [][Next]_vars

\* the runs in which every uninitialised Block happens to hold zeros
InitClean == Init /\ junk = 0

SpecClean == InitClean /\ [][Next]_vars

(* ======================================================================= *)
(* The claims                                                              *)
(* ======================================================================= *)

Max(a, b) == IF a > b THEN a ELSE b

\* inode n lies in the inode table and its valid flag is 1
ValidInode(dk, f, n) ==
    /\ n >= 0 /\ n < f.meta_data.inodes
    /\ InodeAt(dk[InodeBlock(n)], InodeSlot(n)).valid = 1

SizeOf(dk, n) == InodeAt(dk[InodeBlock(n)], InodeSlot(n)).size

\* the bytes buf[0 .. length) of the p-th write
BufBytes(p, length) == [k \in 1 .. length |-> Buf(p, k - 1)]

\* the largest file fs_write can address
MaxFileSize == (POINTERS_PER_INODE + POINTERS_PER_BLOCK) * BLOCK_SIZE

\* a write had room: more blocks were free than one call can take
HadRoom(free_before) ==
    Cardinality(free_before) > WriteLimit \div BLOCK_SIZE + 1

\* C1: on a mounted handle, a write of length > 0 to a valid inode with
\* offset + length <= max_file_size and enough free blocks returns length, and
\* the read of the same range that follows returns length and the bytes
\* written, whatever the offset (0, not block-aligned, direct, indirect,
\* across the boundary).
C1_RoundTrip ==
    (/\ Mounted
     /\ last.op = "write"
     /\ ValidInode(disk, fs, last.n)
     /\ last.off + last.len <= MaxFileSize
     /\ HadRoom(last.aux))
    => /\ halted = "run"
       /\ last.ret = last.len
       /\ fs_read(disk, fs, last.n, last.len, last.off, junk).hang = FALSE
       /\ fs_read(disk, fs, last.n, last.len, last.off, junk).ret = last.len
       /\ fs_read(disk, fs, last.n, last.len, last.off, junk).out
              = BufBytes(last.pat, last.len)

\* C2: in every state of a mounted handle, block 0 and the inode-table blocks
\* 1 .. inode_blocks are marked used in the bitmap (so the free-block scan of
\* a write never selects one of them).
C2_ReservedBlocksUsed ==
    (Mounted /\ halted = "run")
    => \A b \in 0 .. fs.meta_data.inode_blocks :
          /\ fs.free_blocks[b] = 0
          /\ FirstFree(fs.free_blocks, DiskBlocks) # b

\* C3: only format changes block 0 of the device: every other call leaves
\* every cell of the superblock as it was.
C3_SuperblockFrame ==
    [][last'.op = "format" \/ disk'[0] = disk[0]]_vars

\* C4: on a mounted handle, when create returns n >= 0 the stat of n that
\* follows returns 0.
C4_StatAfterCreate ==
    (Mounted /\ last.op = "create" /\ last.ret >= 0)
    => fs_stat(disk, fs, last.ret) = 0

\* C5: create returns the global number slot + (block - 1) * INODES_PER_BLOCK
\* of the first inode with valid == 0, and after the call that inode is valid
\* with size 0 and every pointer 0.
C5_CreateReturnsGlobalNumber ==
    (Mounted /\ last.op = "create" /\ last.ret >= 0)
    => /\ last.aux = {last.ret}
       /\ InodeAt(disk[InodeBlock(last.ret)], InodeSlot(last.ret)) = ClearedInode(1)

\* C6: on a mounted handle, after remove(n) returned true, stat(n) returns -1
\* and every data block and the indirect block that were reachable from n
\* before the call are marked free, so the scan of a later write reaches them.
C6_RemoveFrees ==
    (Mounted /\ last.op = "remove" /\ last.ret = 1)
    => /\ fs_stat(disk, fs, last.n) = -1
       /\ \A b \in last.aux :
             /\ fs.free_blocks[b] # 0
             /\ FirstFree(fs.free_blocks, DiskBlocks) <= b

\* a remove that released two direct blocks, the indirect block and a block
\* named in it
C6_Witness ==
    /\ Mounted /\ last.op = "remove" /\ last.ret = 1
    /\ Cardinality(last.aux) >= POINTERS_PER_INODE + 2
    /\ ValidInode(disk, fs, last.n) = FALSE

\* C7: for a valid inode with stored size s, a read with L > 0 and
\* offset + L > s returns max(0, s - offset); it returns 0 when offset >= s.
C7_ReadClamp ==
    (/\ Mounted
     /\ last.op = "read"
     /\ ValidInode(disk, fs, last.n)
     /\ last.off + last.len > SizeOf(disk, last.n))
    => /\ halted = "run"
       /\ last.ret = Max(0, SizeOf(disk, last.n) - last.off)

\* C8: from every state of a mounted handle, unmount followed by mount on the
\* same device succeeds, and afterwards stat returns for every inode, and read
\* returns for every valid inode, what it returned before the unmount.
C8_Remount ==
    (Mounted /\ halted = "run")
    => LET again == fs_mount(disk, fs_unmount(fs)) IN
       /\ again.ret
       /\ \A n \in Inums :
             /\ fs_stat(disk, again.fs, n) = fs_stat(disk, fs, n)
             /\ ValidInode(disk, fs, n)
                => \A io \in IoArgs :
                      fs_read(disk, again.fs, n, io[2], io[1], junk)
                          = fs_read(disk, fs, n, io[2], io[1], junk)

\* the blocks a valid inode of the table refers to: its nonzero direct
\* pointers, its nonzero indirect pointer, the nonzero entries of its
\* indirect block
Referenced(dk, f) ==
    UNION {Reachable(dk, n) :
             n \in {m \in 0 .. (f.meta_data.inode_blocks * INODES_PER_BLOCK - 1) :
                      InodeAt(dk[InodeBlock(m)], InodeSlot(m)).valid = 1}}

\* C9: right after a successful mount, a block b with inode_blocks < b < blocks
\* is marked used exactly if a valid inode refers to it (direct, indirect, or
\* through its indirect block); inodes that are not valid mark nothing.
C9_BitmapRecovery ==
    (last.op = "mount" /\ last.ret = 1)
    => \A b \in (fs.meta_data.inode_blocks + 1) .. (DiskBlocks - 1) :
          (fs.free_blocks[b] = 0) <=> (b \in Referenced(disk, fs))

\* a mount that found a file with direct blocks, an indirect block and a
\* block named in it, and blocks no inode refers to
C9_Witness ==
    /\ last.op = "mount" /\ last.ret = 1
    /\ \E n \in Inums :
          /\ ValidInode(disk, fs, n)
          /\ InodeAt(disk[InodeBlock(n)], InodeSlot(n)).indirect > fs.meta_data.inode_blocks
          /\ Cardinality(Reachable(disk, n) \cap BlockIds) >= POINTERS_PER_INODE + 2
    /\ \E b \in BlockIds : fs.free_blocks[b] # 0

\* C10: after format returned true, blocks 1 .. blocks-1 are all zeros and
\* block 0 holds magic, blocks, inode_blocks = ceil(blocks / 10) and
\* inodes = inode_blocks * INODES_PER_BLOCK; the mount that follows succeeds
\* with no valid inode and every block after the inode table free.
C10_FormatThenMount ==
    (last.op = "format" /\ last.ret = 1)
    => /\ \A b \in 1 .. (DiskBlocks - 1) : disk[b] = ZeroBlock
       /\ Super(disk[0]) =
              [magic_number |-> MAGIC_NUMBER, blocks |-> DiskBlocks,
               inode_blocks |-> (DiskBlocks + 9) \div 10,
               inodes |-> ((DiskBlocks + 9) \div 10) * INODES_PER_BLOCK]
       /\ LET m == fs_mount(disk, fs) IN
          /\ m.ret
          /\ \A n \in 0 .. (m.fs.meta_data.inodes - 1) : fs_stat(disk, m.fs, n) = -1
          /\ \A b \in (m.fs.meta_data.inode_blocks + 1) .. (DiskBlocks - 1) :
                m.fs.free_blocks[b] # 0

\* inode n lies in the inode table
InTable(f, n) == n >= 0 /\ n < f.meta_data.inodes

\* C11: the size of a valid inode is the high-water mark of its writes: after
\* a write at offset that returned k > 0 bytes, stat(n) is at least
\* offset + k (a write at offset > 0 included).
C11_SizeHighWater ==
    (/\ Mounted
     /\ halted = "run"
     /\ last.op = "write"
     /\ ValidInode(disk, fs, last.n)
     /\ last.ret > 0)
    => fs_stat(disk, fs, last.n) >= last.off + last.ret

\* C12: on a mounted handle, a read or a write of length > 0 on an inode of
\* the table whose valid flag is 0 returns -1 and changes no disk block and no
\* bitmap entry.
C12_InvalidInodeRefused ==
    [][(/\ Mounted
        /\ last'.op \in {"read", "write"}
        /\ last'.len > 0
        /\ InTable(fs, last'.n)
        /\ InodeAt(disk[InodeBlock(last'.n)], InodeSlot(last'.n)).valid = 0)
       => /\ last'.ret = -1
          /\ disk' = disk
          /\ fs' = fs]_vars

\* the handle holds no device and no bitmap
Detached == fs.disk = 0 /\ ~ fs.has_bitmap

\* C13: while the handle is Mounted, format and mount return failure and
\* leave the handle and every disk block as they were; unmount leaves the
\* handle with no device and no bitmap, and the mount that follows succeeds on
\* every device on which the mount of a new handle succeeds.
C13_HandleStateMachine ==
    [][Mounted
       => /\ last'.op \in {"format", "mount"}
             => (last'.ret = 0 /\ fs' = fs /\ disk' = disk)
          /\ last'.op = "unmount"
             => /\ fs'.disk = 0 /\ ~ fs'.has_bitmap
                /\ fs_mount(disk', ClearedFs).ret
                   => /\ fs_mount(disk', fs').ret
                      /\ fs_mount(disk', fs').fs.disk = 1
                      /\ fs_mount(disk', fs').fs.has_bitmap]_vars

\* a mount refused on a handle that is mounted and holds a bitmap with used
\* data blocks
C13_Witness ==
    /\ Mounted /\ last.op = "mount" /\ last.ret = 0
    /\ \E b \in (fs.meta_data.inode_blocks + 1) .. (DiskBlocks - 1) : fs.free_blocks[b] = 0

\* C14: whenever the mount of a detached handle returns false, for a rejected
\* superblock or for a block of the scan that cannot be read, the handle is
\* still detached afterwards: no device bound, no bitmap held.
C14_FailedMountDetached ==
    [][(Detached /\ last'.op = "mount" /\ last'.ret = 0)
       => (fs'.disk = 0 /\ ~ fs'.has_bitmap)]_vars

\* every pointer stored for inode n: direct[], indirect, and the entries of
\* the indirect block when it lies in the device
PointersOf(dk, n) ==
    LET ino == InodeAt(dk[InodeBlock(n)], InodeSlot(n)) IN
    {ino.direct[k] : k \in DirectIdx}
    \cup {ino.indirect}
    \cup (IF ino.indirect \in BlockIds /\ ino.indirect # 0
          THEN {dk[ino.indirect][p] : p \in PtrIdx} ELSE {})

\* C15: when a write to a valid inode needs a new block and no bitmap entry is
\* free, the call returns -1 or fewer bytes than requested, stores no block
\* index outside [0, blocks) in the inode or its indirect block, and leaves
\* the size of the inode as it was, since it stored no byte.
C15_Exhaustion ==
    [][(/\ Mounted
        /\ last'.op = "write"
        /\ last'.len > 0
        /\ ValidInode(disk, fs, last'.n)
        /\ \A b \in BlockIds : fs.free_blocks[b] = 0)
       => /\ last'.ret < last'.len
          /\ PointersOf(disk', last'.n) \subseteq BlockIds
          /\ SizeOf(disk', last'.n) = SizeOf(disk, last'.n)]_vars

\* C16: on a mounted handle, stat, remove, read and write with an inode
\* number >= superblock.inodes return failure (-1, or false for remove) and
\* change neither a disk block nor the bitmap, also when the block
\* inode_number / INODES_PER_BLOCK + 1 lies inside the device.
C16_InodeOutOfRange ==
    [][(/\ Mounted
        /\ last'.op \in {"stat", "remove", "read", "write"}
        /\ last'.op \in {"read", "write"} => last'.len > 0
        /\ last'.n >= fs.meta_data.inodes)
       => /\ last'.ret = (IF last'.op = "remove" THEN 0 ELSE -1)
          /\ disk' = disk
          /\ fs' = fs]_vars

\* the bitmap of a mounted device on which no inode refers to a block
FreshBitmap(f) ==
    \A b \in BlockIds : (f.free_blocks[b] = 0) <=> (b <= f.meta_data.inode_blocks)

\* C17: on a freshly formatted and mounted device, a write of L bytes at
\* offset 0 to a newly created inode n, with
\* POINTERS_PER_INODE*BLOCK_SIZE < L <= (POINTERS_PER_INODE+1)*BLOCK_SIZE,
\* returns L; afterwards stat(n) = L, every direct[] slot and indirect are
\* nonzero, pointers[0] of the indirect block is nonzero and pointers[1..]
\* are zero.
C17_SpanIntoIndirect ==
    [][(/\ Mounted
        /\ FreshBitmap(fs)
        /\ last'.op = "write"
        /\ last'.off = 0
        /\ last'.len > POINTERS_PER_INODE * BLOCK_SIZE
        /\ last'.len <= (POINTERS_PER_INODE + 1) * BLOCK_SIZE
        /\ ValidInode(disk, fs, last'.n)
        /\ InodeAt(disk[InodeBlock(last'.n)], InodeSlot(last'.n)) = ClearedInode(1))
       => LET ino == InodeAt(disk'[InodeBlock(last'.n)], InodeSlot(last'.n)) IN
          /\ last'.ret = last'.len
          /\ fs_stat(disk', fs', last'.n) = last'.len
          /\ \A k \in DirectIdx : ino.direct[k] # 0
          /\ ino.indirect # 0
          /\ ino.indirect \in BlockIds
          /\ disk'[ino.indirect][0] # 0
          /\ \A p \in PtrIdx \ {0} : disk'[ino.indirect][p] = 0]_vars

\* the pointers a valid inode of the table holds are nonzero only for blocks
\* strictly between inode_blocks and blocks that the bitmap marks used
PointerInvariant(dk, f) ==
    \A n \in 0 .. (f.meta_data.inodes - 1) :
        ValidInode(dk, f, n)
        => \A b \in PointersOf(dk, n) \ {0} :
              /\ b > f.meta_data.inode_blocks /\ b < DiskBlocks
              /\ f.free_blocks[b] = 0

\* C18: on a mounted handle, create, write and remove keep the pointer
\* invariant: every nonzero direct[i] and indirect of every valid inode, and
\* every nonzero entry of its indirect block, is marked used in the bitmap and
\* lies strictly between inode_blocks and blocks.
C18_PointerInvariant ==
    [][(/\ Mounted
        /\ PointerInvariant(disk, fs)
        /\ last'.op \in {"create", "write", "remove"}
        /\ halted' = "run")
       => PointerInvariant(disk', fs')]_vars

\* the pointer inode n holds for logical block l: direct[l], or entry
\* l - POINTERS_PER_INODE of the indirect block (0 when there is none)
LogicalPtr(dk, n, l) ==
    LET ino == InodeAt(dk[InodeBlock(n)], InodeSlot(n)) IN
    IF l < POINTERS_PER_INODE THEN ino.direct[l]
    ELSE IF ino.indirect \in BlockIds /\ ino.indirect # 0
         THEN dk[ino.indirect][l - POINTERS_PER_INODE]
         ELSE 0

\* the logical blocks the byte range [offset, offset + length) lies in
Touched(offset, length) ==
    (offset \div BLOCK_SIZE) .. ((offset + length - 1) \div BLOCK_SIZE)

\* C19: when every logical block a write targets already has a nonzero
\* pointer (direct[L] or the indirect block's entry), the write leaves every
\* pointer of the inode unchanged and changes no bitmap entry, so the number
\* of blocks marked used does not grow.
C19_AllocatesOnlyEmptySlots ==
    [][(/\ Mounted
        /\ last'.op = "write"
        /\ last'.len > 0
        /\ ValidInode(disk, fs, last'.n)
        /\ last'.off + last'.len <= MaxFileSize
        /\ \A l \in Touched(last'.off, last'.len) : LogicalPtr(disk, last'.n, l) # 0)
       => /\ \A l \in 0 .. (POINTERS_PER_INODE + POINTERS_PER_BLOCK - 1) :
                LogicalPtr(disk', last'.n, l) = LogicalPtr(disk, last'.n, l)
          /\ fs'.free_blocks = fs.free_blocks]_vars

\* byte pos of the file of inode n as the device holds it (-1 when the
\* logical block has no block of the device)
FileByte(dk, n, pos) ==
    IF LogicalPtr(dk, n, pos \div BLOCK_SIZE) \in BlockIds
    THEN dk[LogicalPtr(dk, n, pos \div BLOCK_SIZE)][pos % BLOCK_SIZE]
    ELSE -1

\* C20: a write of length bytes at offset to a valid inode changes only the
\* file bytes in [offset, offset + length): a byte of a touched logical block
\* outside that range that was written before holds its old value afterwards,
\* and on a newly allocated block the bytes outside the range are zero.
C20_PreservesNeighbours ==
    [][(/\ Mounted
        /\ last'.op = "write"
        /\ last'.len > 0
        /\ last'.ret = last'.len
        /\ halted' = "run"
        /\ ValidInode(disk, fs, last'.n)
        /\ last'.off + last'.len <= MaxFileSize)
       => \A l \in Touched(last'.off, last'.len) :
             \A c \in Cells :
                (l * BLOCK_SIZE + c < last'.off \/ l * BLOCK_SIZE + c >= last'.off + last'.len)
                => FileByte(disk', last'.n, l * BLOCK_SIZE + c)
                     = (IF LogicalPtr(disk, last'.n, l) # 0
                        THEN FileByte(disk, last'.n, l * BLOCK_SIZE + c)
                        ELSE 0)]_vars

\* the slots of the indirect block a write of [offset, offset + length) targets
TouchedSlots(offset, length) ==
    {l - POINTERS_PER_INODE : l \in {m \in Touched(offset, length) : m >= POINTERS_PER_INODE}}

\* C21: when a write first allocates the indirect block of an inode, every
\* slot of the block it does not set is zero on disk afterwards; and when the
\* inode already has an indirect block, every slot the write does not target
\* holds on disk what it held before, so no earlier pointer is lost.
C21_IndirectMaintained ==
    [][(/\ Mounted
        /\ last'.op = "write"
        /\ last'.len > 0
        /\ last'.ret = last'.len
        /\ halted' = "run"
        /\ ValidInode(disk, fs, last'.n)
        /\ last'.off + last'.len <= MaxFileSize
        /\ TouchedSlots(last'.off, last'.len) # {})
       => LET old == InodeAt(disk[InodeBlock(last'.n)], InodeSlot(last'.n)).indirect
              new == InodeAt(disk'[InodeBlock(last'.n)], InodeSlot(last'.n)).indirect
          IN
          /\ new \in BlockIds
          /\ \A j \in PtrIdx \ TouchedSlots(last'.off, last'.len) :
                disk'[new][j] = (IF old # 0 /\ old \in BlockIds THEN disk[old][j] ELSE 0)]_vars

\* C22: on a mounted handle, every read of length > 0 on a valid inode
\* returns: no inode state and no offset, block-aligned or not, makes the
\* loop of the read run without end.
C22_ReadTerminates ==
    (/\ Mounted
     /\ last.op = "read"
     /\ last.len > 0
     /\ ValidInode(disk, fs, last.n))
    => halted # "hang"

\* C23: a write to a valid inode returns; when offset + length exceeds
\* max_file_size = (POINTERS_PER_INODE + POINTERS_PER_BLOCK) * BLOCK_SIZE it
\* returns at most max_file_size - offset, and when offset + length does not
\* exceed max_file_size and blocks are free it is not shortened: it returns
\* length.
C23_WriteClamp ==
    [][(/\ Mounted
        /\ last'.op = "write"
        /\ last'.len > 0
        /\ ValidInode(disk, fs, last'.n)
        /\ HadRoom(last'.aux))
       => /\ halted' = "run"
          /\ last'.off + last'.len > MaxFileSize
             => last'.ret <= MaxFileSize - last'.off
          /\ last'.off + last'.len <= MaxFileSize
             => last'.ret = last'.len]_vars

====
